---- MODULE Spec2Model ----
(***************************************************************************)
(* A model of prefect-cubejs: the run_query and build_pre_aggregations     *)
(* tasks (src/prefect_cubejs/tasks.py), the CubeJSClient they drive        *)
(* (src/prefect_cubejs/utils.py) and the token of the AuthHeader block     *)
(* (src/prefect_cubejs/blocks.py).                                         *)
(*                                                                         *)
(* One behaviour is one invocation of one task.  The HTTP server is the    *)
(* environment: every request is answered by a response chosen from a      *)
(* small set (200 with some JSON body, a non-200 status with a reason, or  *)
(* a transport failure that makes the requests library raise).             *)
(*                                                                         *)
(* Python values are modelled as follows.                                  *)
(*   Optional[x]  the empty tuple for None, the one-tuple <<x>> otherwise  *)
(*   str          a tuple of text fragments; a in b / b.find(a) is the   *)
(*                substring search Find over such tuples                   *)
(*   dict         a TLA+ function from keys (strings) to values; the       *)
(*                statuses dict, whose iteration order the code depends    *)
(*                on, is a tuple of <<key, value>> pairs with distinct keys *)
(***************************************************************************)
EXTENDS Integers, Sequences, FiniteSets, TLC

VARIABLES
    task,               \* which task this invocation runs
    args,               \* the arguments of the call
    environ,            \* os.environ: the names of the variables that are set
    pc,                 \* position of the invocation
    auth_header,        \* the AuthHeader in use (Optional)
    cubejs_client,      \* the CubeJSClient built by the task (Optional)
    params,             \* run_query: params passed to get_data
    api_url,            \* _get_data_from_url: the URL being fetched
    elapsed_wait_time,  \* _get_data_from_url: the elapsed-time accumulator
    data,               \* get_data: the document of the primary fetch
    returned,           \* the documents _get_data_from_url returned, in call order
    tokens,             \* build_pre_aggregations: the submitted job tokens
    statuses,           \* build_pre_aggregations: the latest status payload
    result,             \* the value returned to the caller (Optional)
    error,              \* the exception raised to the caller
    requests,           \* every HTTP request sent, in order
    responses,          \* every answer to a GET, in order
    post_response,      \* the answer to the latest POST (Optional)
    sleeps,             \* every time.sleep duration, in order
    served,             \* the kind of every status payload served, in order
    session,            \* the headers of the requests Session in use (Optional)
    sent_headers,       \* the headers every HTTP request was sent with, in order
    invocations         \* concurrent calls of one client: the locals of each

vars == <<task, args, environ, pc, auth_header, cubejs_client, params, api_url,
          elapsed_wait_time, data, returned, tokens, statuses, result, error,
          requests, responses, post_response, sleeps, served, session,
          sent_headers, invocations>>

(***************************************************************************)
(* Bounds of the model.                                                    *)
(***************************************************************************)
\* The polling loops are unbounded in the code; an invocation of the model
\* sends at most this many HTTP requests.
MaxCalls == 5

\* Each of the concurrent calls sends at most this many HTTP requests.
MaxCallsEach == 2

(***************************************************************************)
(* Python values.                                                          *)
(***************************************************************************)
None == <<>>

Some(x) == <<x>>

\* bool(x) of an Optional[int]: None and 0 are falsy.
TruthyInt(o) == o # None /\ o[1] # 0

\* bool(x) of an Optional[str]: None and the empty string are falsy.
TruthyStr(o) == o # None /\ o[1] # <<>>

\* bool(x) of an Optional[dict]: None and the empty dict are falsy.
TruthyDict(o) == o # None /\ DOMAIN o[1] # {}

\* bool(x) of an Optional[Block]: only None is falsy.
TruthyObj(o) == o # None

\* f"{x}" of an Optional[str].
Format(o) == IF o = None THEN <<"None">> ELSE o[1]

\* f"{x}" of an Optional[int].
FormatInt(o) == IF o = None THEN "None" ELSE ToString(o[1])

\* s.find(sub): the least index (from 0) at which sub occurs in s, else -1.
Find(s, sub) ==
    LET hits == {i \in 1..(Len(s) - Len(sub) + 1) : SubSeq(s, i, i + Len(sub) - 1) = sub}
    IN  IF hits = {} THEN -1
        ELSE (CHOOSE i \in hits : \A j \in hits : i <= j) - 1

\* sub in s for strings.
Contains(s, sub) == Find(s, sub) >= 0

\* json.dumps(x): the serialised text of x, not x itself.
Dumps(x) == <<"json", x>>

\* The two exception classes of src/prefect_cubejs/exceptions.py.
CubeJSConfigurationException == "CubeJSConfigurationException"

CubeJSAPIFailureException == "CubeJSAPIFailureException"

NoError == [kind |-> "none", msg |-> <<>>]

Exception(kind, msg) == [kind |-> kind, msg |-> msg]

(***************************************************************************)
(* The arguments a caller may pass, and the environment.                   *)
(***************************************************************************)
Subdomains == {None, Some(<<>>), Some(<<"acme">>)}

Urls == {None, Some(<<"http://h/cubejs-system">>)}

Queries == {None, Some(<<>>), Some([measures |-> <<"count">>])}

Selectors == {None, Some(<<>>), Some([timezones |-> <<"UTC">>])}

SecurityContexts == {None, Some([foo |-> <<"bar">>])}

ApiSecrets == {None, Some(<<"secret">>)}

EnvVar == <<"CUBEJS_API_SECRET">>

Environs == {{}, {EnvVar}}

\* os.environ[name]
Getenv(name) == <<"secret-of-">> \o name

AuthHeader(security_context, api_secret) ==
    [security_context |-> security_context, api_secret |-> api_secret]

AuthHeaders == {None} \cup {Some(AuthHeader(c, <<"secret">>)) : c \in SecurityContexts}

WaitTimes == {-1, 0, 1, 2}

MaxWaitTimes == {None, Some(0), Some(1), Some(3)}

\* A call of run_query.  Arguments the task does not have are left at None.
RunQueryArgs ==
    [query : Queries, selector : {None}, auth_header : AuthHeaders,
     subdomain : Subdomains, url : Urls, api_secret : ApiSecrets,
     api_secret_env_var : {Some(EnvVar)}, security_context : SecurityContexts,
     include_generated_sql : BOOLEAN, wait_for_job_run_completion : {FALSE},
     wait_time_between_api_calls : WaitTimes \ {-1}, max_wait_time : MaxWaitTimes]

\* A call of build_pre_aggregations.
BuildArgs ==
    [query : {None}, selector : Selectors, auth_header : AuthHeaders,
     subdomain : Subdomains, url : Urls, api_secret : ApiSecrets,
     api_secret_env_var : {Some(EnvVar)}, security_context : SecurityContexts,
     include_generated_sql : {FALSE}, wait_for_job_run_completion : BOOLEAN,
     wait_time_between_api_calls : WaitTimes \ {2}, max_wait_time : {None}]

\* The arguments that only _get_auth_header reads are left at their defaults
\* when an auth_header is passed.
Relevant(a, env) ==
    TruthyObj(a.auth_header) =>
        a.api_secret = None /\ a.security_context = None /\ env = {}

\* Security contexts without an expiry, with exp and with expiresIn, and
\* the empty one.
ExpiryContexts ==
    SecurityContexts
        \cup {Some(<<>>),
              Some([exp |-> <<"1700000000">>, foo |-> <<"bar">>]),
              Some([expiresIn |-> <<"1">>, foo |-> <<"bar">>])}

ExpiryAuthHeaders ==
    {None} \cup {Some(AuthHeader(c, <<"secret">>)) : c \in ExpiryContexts}

\* Calls of the two tasks that pass the argument checks, with every kind of
\* security context.
ExpiryRunQueryArgs ==
    [query : {Some([measures |-> <<"count">>])}, selector : {None},
     auth_header : ExpiryAuthHeaders, subdomain : {None},
     url : {Some(<<"http://h/cubejs-system">>)}, api_secret : ApiSecrets,
     api_secret_env_var : {Some(EnvVar)}, security_context : ExpiryContexts,
     include_generated_sql : BOOLEAN, wait_for_job_run_completion : {FALSE},
     wait_time_between_api_calls : {1}, max_wait_time : {None, Some(1)}]

ExpiryBuildArgs ==
    [query : {None}, selector : {Some([timezones |-> <<"UTC">>])},
     auth_header : ExpiryAuthHeaders, subdomain : {None},
     url : {Some(<<"http://h/cubejs-system">>)}, api_secret : ApiSecrets,
     api_secret_env_var : {Some(EnvVar)}, security_context : ExpiryContexts,
     include_generated_sql : {FALSE}, wait_for_job_run_completion : BOOLEAN,
     wait_time_between_api_calls : {0}, max_wait_time : {None}]

(***************************************************************************)
(* The server.                                                             *)
(***************************************************************************)
ContinueWait == <<"Continue wait">>

\* JSON documents a GET may be answered with.
Bodies ==
    { [error |-> ContinueWait],
      [error |-> <<"Error: ", "Continue wait", ", query is running">>],
      [error |-> <<"Continue">>],
      [data |-> <<"rows">>],
      [sql |-> <<"SELECT 1">>] }

Http(status, reason, body) ==
    [transport |-> "ok", status |-> status, reason |-> reason, body |-> body]

\* The request never got an HTTP answer: requests raises ConnectionError.
TransportFailure ==
    [transport |-> "failed", status |-> 0, reason |-> <<>>, body |-> [error |-> <<>>]]

\* Job tokens, and the token lists a submit may be answered with.
Tokens == {"t1", "t2"}

TokenLists == {<<>>, <<"t1">>, <<"t1", "t2">>}

DONE == <<"done">>

MISSING_PARTITION == <<"missing_partition">>

FAILURE == <<"failure">>

JobStatuses ==
    {DONE, MISSING_PARTITION, <<"processing">>,
     <<"failure", ": returned error">>, <<"build ", "failure">>}

Job(token, status) == <<token, [status |-> status]>>

\* The status documents (resType "object") a status fetch may be answered
\* with: a dict from token to job, in the order the server wrote the keys.
\* The server decides which tokens it reports.
StatusPayloads ==
    {<<>>}
        \cup {<<Job(t, s)>> : t \in Tokens, s \in JobStatuses}
        \cup {<<Job(t[1], s1), Job(t[2], s2)>> :
                 t \in {<<"t1", "t2">>, <<"t2", "t1">>}, s1 \in JobStatuses, s2 \in JobStatuses}

GetResponses ==
    {Http(200, <<"OK">>, b) : b \in Bodies}
        \cup {Http(500, <<"Internal Server Error">>, [error |-> <<"500">>])}
        \cup {TransportFailure}

ErrorResponses ==
    {Http(500, <<"Internal Server Error">>, [error |-> <<"500">>]), TransportFailure}

SubmitResponses == {Http(200, <<"OK">>, l) : l \in TokenLists} \cup ErrorResponses

StatusResponses == {Http(200, <<"OK">>, p) : p \in StatusPayloads} \cup ErrorResponses

Request(method, url, payload) == [method |-> method, url |-> url, data |-> payload]

(***************************************************************************)
(* CubeJSClient: construction and endpoint URLs.                           *)
(***************************************************************************)
\* Variant: a url that is given goes before the subdomain.
_get_cube_base_url_UrlFirst(subdomain, url) ==
    IF TruthyStr(url)
    THEN url
    ELSE Some(<<"https://">> \o subdomain[1] \o <<".cubecloud.dev">> \o <<"/cubejs-api">>)

_get_cube_base_url(subdomain, url) ==
    IF TruthyStr(subdomain)
    THEN Some(<<"https://">> \o subdomain[1] \o <<".cubecloud.dev">> \o <<"/cubejs-api">>)
    ELSE url

_get_query_api_url(cube_base_url) == Format(cube_base_url) \o <<"/v1/load">>

_get_generated_sql_api_url(cube_base_url) == Format(cube_base_url) \o <<"/v1/sql">>

_get_pre_aggregations_jobs_api_url(cube_base_url) ==
    Format(cube_base_url) \o <<"/v1/pre-aggregations/jobs">>

CubeJSClient(subdomain, url, header, wait_api_call_secs, max_wait_time) ==
    LET cube_base_url == _get_cube_base_url(subdomain, url)
    IN  [subdomain |-> subdomain,
         url |-> url,
         auth_header |-> header,
         cube_base_url |-> cube_base_url,
         query_api_url |-> _get_query_api_url(cube_base_url),
         generated_sql_api_url |-> _get_generated_sql_api_url(cube_base_url),
         pre_aggregations_jobs_api_url |-> _get_pre_aggregations_jobs_api_url(cube_base_url),
         wait_api_call_secs |-> wait_api_call_secs,
         max_wait_time |-> max_wait_time]

(***************************************************************************)
(* blocks.py: AuthHeader.api_token, and the Session a client call opens.   *)
(***************************************************************************)
\* Variant: the item replaces the dict.
SetItem_Alone(d, k, v) == [x \in {k} |-> v]

\* d[k] = v on a dict.
SetItem(d, k, v) == [x \in DOMAIN d \cup {k} |-> IF x = k THEN v ELSE d[x]]

\* SecretStr(x) and its get_secret_value().
SecretStr(x) == [secret |-> x]

get_secret_value(s) == s.secret

\* jwt.encode(payload, key, algorithm): the signed token, as what a
\* verifier holding the key reads from it.  PyJWT signs with HS256 when no
\* algorithm is passed.
jwt_encode(payload, key, algorithm) ==
    [alg |-> algorithm, payload |-> payload, key |-> key]

\* Variant: only expiresIn counts as an expiry.
extended_context_ExpiresInOnly(context) ==
    IF "expiresIn" \notin DOMAIN context
    THEN SetItem(context, "expiresIn", <<"7d">>)
    ELSE context

\* The dict the security context block holds once api_token has run on it:
\* get_secret_value() hands out that dict itself, and the item assignment
\* writes into it.
extended_context(context) ==
    IF "exp" \notin DOMAIN context /\ "expiresIn" \notin DOMAIN context
    THEN SetItem(context, "expiresIn", <<"7d">>)
    ELSE context

\* Variant: the token is signed over the dict as it is before the item
\* assignment.
api_token_EncodeFirst(h) ==
    IF h.security_context # None
    THEN SecretStr(jwt_encode(h.security_context[1], h.api_secret, "HS256"))
    ELSE SecretStr(jwt_encode(<<>>, h.api_secret, "HS256"))

\* The value of the property AuthHeader.api_token of the block h.
api_token(h) ==
    IF h.security_context # None
    THEN SecretStr(jwt_encode(extended_context(h.security_context[1]),
                              h.api_secret, "HS256"))
    ELSE SecretStr(jwt_encode(<<>>, h.api_secret, "HS256"))

\* The block h after api_token has run on it.
AfterApiToken(h) ==
    IF h.security_context # None
    THEN [h EXCEPT !.security_context = Some(extended_context(h.security_context[1]))]
    ELSE h

\* session.headers of the Session a call of the client opens.
SessionHeaders(h) ==
    [Content_type |-> <<"application/json">>,
     Authorization |-> get_secret_value(api_token(h))]

\* session = Session() with its headers: api_token runs on the block that
\* the task and its client share.
NewSession ==
    /\ session' = Some(SessionHeaders(auth_header[1]))
    /\ auth_header' = Some(AfterApiToken(auth_header[1]))
    /\ cubejs_client' = Some([cubejs_client[1] EXCEPT !.auth_header = auth_header'])

\* No Session is opened in this step.
KeepSession == UNCHANGED <<session, auth_header, cubejs_client>>

(***************************************************************************)
(* tasks.py: argument checks shared by the two tasks.                      *)
(***************************************************************************)
\* Variant: the check that a secret can be resolved is left out.
SecretMissing_Unchecked(a, env) == FALSE

\* _get_auth_header raises when no secret can be resolved.
SecretMissing(a, env) ==
    ~TruthyStr(a.api_secret) /\ a.api_secret_env_var[1] \notin env

_get_auth_header(a) ==
    AuthHeader(IF TruthyDict(a.security_context) THEN a.security_context ELSE None,
               IF TruthyStr(a.api_secret) THEN a.api_secret[1]
               ELSE Getenv(a.api_secret_env_var[1]))

\* The auth_header the task goes on with.
ResolveAuthHeader(a) ==
    IF TruthyObj(a.auth_header) THEN a.auth_header ELSE Some(_get_auth_header(a))

\* Variant: the interval is taken as passed.
WaitApiCallSecs_Raw(wait_time_between_api_calls) == wait_time_between_api_calls

\* wait_time_between_api_calls if wait_time_between_api_calls > 0 else 10
WaitApiCallSecs(wait_time_between_api_calls) ==
    IF wait_time_between_api_calls > 0 THEN wait_time_between_api_calls ELSE 10

\* raise: the invocation ends with the exception (the message texts are the
\* code's without their backquotes).
Raise(kind, msg) ==
    /\ pc' = "failed"
    /\ error' = Exception(kind, msg)

(***************************************************************************)
(* Initial states: a task is about to be called.                           *)
(***************************************************************************)
Init ==
    /\ task \in {"run_query", "build_pre_aggregations"}
    /\ args \in (IF task = "run_query" THEN RunQueryArgs ELSE BuildArgs)
    /\ environ \in Environs
    /\ Relevant(args, environ)
    /\ pc = "start"
    /\ auth_header = None
    /\ cubejs_client = None
    /\ params = None
    /\ api_url = None
    /\ elapsed_wait_time = 0
    /\ data = None
    /\ returned = <<>>
    /\ tokens = None
    /\ statuses = None
    /\ result = None
    /\ error = NoError
    /\ requests = <<>>
    /\ responses = <<>>
    /\ post_response = None
    /\ sleeps = <<>>
    /\ served = <<>>
    /\ session = None
    /\ sent_headers = <<>>
    /\ invocations = <<>>

\* Initial states of the calls with every kind of security context.
InitExpiry ==
    /\ task \in {"run_query", "build_pre_aggregations"}
    /\ args \in (IF task = "run_query" THEN ExpiryRunQueryArgs ELSE ExpiryBuildArgs)
    /\ environ = {EnvVar}
    /\ Relevant(args, {})
    /\ pc = "start"
    /\ auth_header = None
    /\ cubejs_client = None
    /\ params = None
    /\ api_url = None
    /\ elapsed_wait_time = 0
    /\ data = None
    /\ returned = <<>>
    /\ tokens = None
    /\ statuses = None
    /\ result = None
    /\ error = NoError
    /\ requests = <<>>
    /\ responses = <<>>
    /\ post_response = None
    /\ sleeps = <<>>
    /\ served = <<>>
    /\ session = None
    /\ sent_headers = <<>>
    /\ invocations = <<>>

(***************************************************************************)
(* run_query, up to the first loop test of _get_data_from_url.             *)
(***************************************************************************)
run_query ==
    /\ pc = "start"
    /\ task = "run_query"
    /\ IF ~TruthyStr(args.subdomain) /\ ~TruthyStr(args.url)
         THEN /\ Raise(CubeJSConfigurationException, <<"Missing both subdomain and url.">>)
              /\ UNCHANGED <<auth_header, cubejs_client, params, api_url, session>>
       ELSE IF ~TruthyDict(args.query)
         THEN /\ Raise(CubeJSConfigurationException, <<"Missing query.">>)
              /\ UNCHANGED <<auth_header, cubejs_client, params, api_url, session>>
       ELSE IF ~TruthyObj(args.auth_header) /\ SecretMissing(args, environ)
         THEN /\ Raise(CubeJSConfigurationException,
                       <<"Missing api_secret and api_secret_env_var not found.">>)
              /\ UNCHANGED <<auth_header, cubejs_client, params, api_url, session>>
       ELSE LET header == ResolveAuthHeader(args)
                client == CubeJSClient(args.subdomain, args.url,
                                       Some(AfterApiToken(header[1])),
                                       WaitApiCallSecs(args.wait_time_between_api_calls),
                                       args.max_wait_time)
            IN  /\ session' = Some(SessionHeaders(header[1]))
                /\ auth_header' = Some(AfterApiToken(header[1]))
                /\ cubejs_client' = Some(client)
                /\ params' = Some([query |-> Dumps(args.query[1])])
                /\ api_url' = Some(client.query_api_url)
                /\ pc' = "load"
                /\ UNCHANGED error
    /\ UNCHANGED <<invocations, task, args, environ, elapsed_wait_time, data, returned, tokens,
                   statuses, result, requests, responses, post_response, sleeps,
                   served, sent_headers>>

(***************************************************************************)
(* CubeJSClient._get_data_from_url and CubeJSClient.get_data.              *)
(***************************************************************************)
\* Variant: the error text must be exactly "Continue wait".
IsContinueWait_Exact(body) ==
    "error" \in DOMAIN body /\ body.error = ContinueWait

\* Variant: any error text asks for another attempt.
IsContinueWait_AnyError(body) == "error" \in DOMAIN body

\* "error" in data.keys() and "Continue wait" in data["error"]
IsContinueWait(body) ==
    "error" \in DOMAIN body /\ Contains(body.error, ContinueWait)

\* Variant: the ceiling itself is already too late (< for <=).
LoopGuard_Strict(max_wait_time, elapsed) ==
    IF TruthyInt(max_wait_time) THEN elapsed < max_wait_time[1] ELSE TRUE

\* Variant: an absent ceiling is a ceiling of 0.
LoopGuard_NoneIsZero(max_wait_time, elapsed) ==
    IF max_wait_time # None THEN elapsed <= max_wait_time[1] ELSE elapsed <= 0

\* Variant: the ceiling is tested with "is not None", so 0 is a ceiling.
LoopGuard_ZeroIsCeiling(max_wait_time, elapsed) ==
    IF max_wait_time # None THEN elapsed <= max_wait_time[1] ELSE TRUE

\* Variant: one more attempt is allowed past the ceiling.
LoopGuard_OneMore(max_wait_time, elapsed) ==
    IF TruthyInt(max_wait_time) THEN elapsed <= max_wait_time[1] + 1 ELSE TRUE

\* The loop test: not self.max_wait_time or elapsed_wait_time <= self.max_wait_time
LoopGuard(max_wait_time, elapsed) ==
    IF TruthyInt(max_wait_time) THEN elapsed <= max_wait_time[1] ELSE TRUE

\* Variant: the generated SQL is fetched whatever include_generated_sql says.
get_data_continue_AlwaysSql(body) ==
    /\ returned' = Append(returned, body)
    /\ IF pc = "load"
       THEN IF TRUE
            THEN /\ data' = Some(body)
                 /\ api_url' = Some(cubejs_client[1].generated_sql_api_url)
                 /\ elapsed_wait_time' = 0
                 /\ pc' = "sql"
                 /\ NewSession
                 /\ UNCHANGED <<result, error>>
            ELSE /\ data' = Some(body)
                 /\ result' = Some(body)
                 /\ pc' = "done"
                 /\ KeepSession
                 /\ UNCHANGED <<api_url, elapsed_wait_time, error>>
       ELSE IF "sql" \in DOMAIN body
            THEN /\ data' = Some(SetItem(data[1], "sql", body.sql))
                 /\ result' = data'
                 /\ pc' = "done"
                 /\ KeepSession
                 /\ UNCHANGED <<api_url, elapsed_wait_time, error>>
            ELSE /\ Raise("KeyError", <<"sql">>)
                 /\ KeepSession
                 /\ UNCHANGED <<data, result, api_url, elapsed_wait_time>>

\* Variant: the second fetch goes on from the elapsed time of the first.
get_data_continue_ElapsedCarried(body) ==
    /\ returned' = Append(returned, body)
    /\ IF pc = "load"
       THEN IF args.include_generated_sql
            THEN /\ data' = Some(body)
                 /\ api_url' = Some(cubejs_client[1].generated_sql_api_url)
                 /\ UNCHANGED elapsed_wait_time
                 /\ pc' = "sql"
                 /\ NewSession
                 /\ UNCHANGED <<result, error>>
            ELSE /\ data' = Some(body)
                 /\ result' = Some(body)
                 /\ pc' = "done"
                 /\ KeepSession
                 /\ UNCHANGED <<api_url, elapsed_wait_time, error>>
       ELSE IF "sql" \in DOMAIN body
            THEN /\ data' = Some(SetItem(data[1], "sql", body.sql))
                 /\ result' = data'
                 /\ pc' = "done"
                 /\ KeepSession
                 /\ UNCHANGED <<api_url, elapsed_wait_time, error>>
            ELSE /\ Raise("KeyError", <<"sql">>)
                 /\ KeepSession
                 /\ UNCHANGED <<data, result, api_url, elapsed_wait_time>>

\* _get_data_from_url returns body to get_data.  After the primary fetch
\* get_data either returns it or starts the fetch of the generated SQL (a
\* new session, elapsed_wait_time = 0); after the second fetch it stores
\* the sql field of that document in the first one and returns it.
get_data_continue(body) ==
    /\ returned' = Append(returned, body)
    /\ IF pc = "load"
       THEN IF args.include_generated_sql
            THEN /\ data' = Some(body)
                 /\ api_url' = Some(cubejs_client[1].generated_sql_api_url)
                 /\ elapsed_wait_time' = 0
                 /\ pc' = "sql"
                 /\ NewSession
                 /\ UNCHANGED <<result, error>>
            ELSE /\ data' = Some(body)
                 /\ result' = Some(body)
                 /\ pc' = "done"
                 /\ KeepSession
                 /\ UNCHANGED <<api_url, elapsed_wait_time, error>>
       ELSE IF "sql" \in DOMAIN body
            THEN /\ data' = Some(SetItem(data[1], "sql", body.sql))
                 /\ result' = data'
                 /\ pc' = "done"
                 /\ KeepSession
                 /\ UNCHANGED <<api_url, elapsed_wait_time, error>>
            ELSE /\ Raise("KeyError", <<"sql">>)
                 /\ KeepSession
                 /\ UNCHANGED <<data, result, api_url, elapsed_wait_time>>

\* Variant: a response that is not a 200 is waited on like "Continue wait".
HandleGetResponse_RetryOnError(response) ==
    IF response.transport # "ok"
    THEN /\ Raise("ConnectionError", <<>>)
         /\ KeepSession
         /\ UNCHANGED <<data, returned, result, api_url, elapsed_wait_time, sleeps>>
    ELSE IF response.status # 200 \/ IsContinueWait(response.body)
    THEN /\ sleeps' = Append(sleeps, cubejs_client[1].wait_api_call_secs)
         /\ elapsed_wait_time' = elapsed_wait_time + cubejs_client[1].wait_api_call_secs
         /\ KeepSession
         /\ UNCHANGED <<pc, error, data, returned, result, api_url>>
    ELSE /\ get_data_continue(response.body)
         /\ UNCHANGED sleeps

\* Variant: the sleep is not added to the elapsed time.
HandleGetResponse_ElapsedKept(response) ==
    IF response.transport # "ok"
    THEN /\ Raise("ConnectionError", <<>>)
         /\ KeepSession
         /\ UNCHANGED <<data, returned, result, api_url, elapsed_wait_time, sleeps>>
    ELSE IF response.status = 200
    THEN IF IsContinueWait(response.body)
         THEN /\ sleeps' = Append(sleeps, cubejs_client[1].wait_api_call_secs)
              /\ UNCHANGED elapsed_wait_time
              /\ KeepSession
              /\ UNCHANGED <<pc, error, data, returned, result, api_url>>
         ELSE /\ get_data_continue(response.body)
              /\ UNCHANGED sleeps
    ELSE /\ Raise(CubeJSAPIFailureException,
                  <<"Cube.js load API failed! Error is: ">> \o response.reason)
         /\ KeepSession
         /\ UNCHANGED <<data, returned, result, api_url, elapsed_wait_time, sleeps>>

\* What one iteration of the loop does with the response to its GET.
HandleGetResponse(response) ==
    IF response.transport # "ok"
    THEN /\ Raise("ConnectionError", <<>>)
         /\ KeepSession
         /\ UNCHANGED <<data, returned, result, api_url, elapsed_wait_time, sleeps>>
    ELSE IF response.status = 200
    THEN IF IsContinueWait(response.body)
         THEN /\ sleeps' = Append(sleeps, cubejs_client[1].wait_api_call_secs)
              /\ elapsed_wait_time' = elapsed_wait_time + cubejs_client[1].wait_api_call_secs
              /\ KeepSession
              /\ UNCHANGED <<pc, error, data, returned, result, api_url>>
         ELSE /\ get_data_continue(response.body)
              /\ UNCHANGED sleeps
    ELSE /\ Raise(CubeJSAPIFailureException,
                  <<"Cube.js load API failed! Error is: ">> \o response.reason)
         /\ KeepSession
         /\ UNCHANGED <<data, returned, result, api_url, elapsed_wait_time, sleeps>>

\* One iteration of the while loop: the test holds, the GET is sent and
\* its response handled.
_get_data_from_url ==
    /\ pc \in {"load", "sql"}
    /\ LoopGuard(cubejs_client[1].max_wait_time, elapsed_wait_time)
    /\ Len(requests) < MaxCalls
    /\ \E response \in GetResponses :
          /\ requests' = Append(requests, Request("GET", api_url[1], params[1]))
          /\ sent_headers' = Append(sent_headers, session[1])
          /\ responses' = Append(responses, response)
          /\ HandleGetResponse(response)
    /\ UNCHANGED <<invocations, task, args, environ, params, tokens, statuses, post_response,
                   served>>

\* The loop test fails: the ceiling is exceeded.
_get_data_from_url_ceiling ==
    /\ pc \in {"load", "sql"}
    /\ ~LoopGuard(cubejs_client[1].max_wait_time, elapsed_wait_time)
    /\ Raise(CubeJSAPIFailureException,
             <<"Cube.js API took longer than ",
               FormatInt(cubejs_client[1].max_wait_time),
               " seconds to provide a response.">>)
    /\ UNCHANGED <<invocations, task, args, environ, auth_header, cubejs_client, params, api_url,
                   elapsed_wait_time, data, returned, tokens, statuses, result,
                   requests, responses, post_response, sleeps, served, session,
                   sent_headers>>

(***************************************************************************)
(* build_pre_aggregations and CubeJSClient.pre_aggregations_jobs.          *)
(***************************************************************************)
\* build_pre_aggregations up to the submit call.
build_pre_aggregations ==
    /\ pc = "start"
    /\ task = "build_pre_aggregations"
    /\ IF ~TruthyStr(args.subdomain) /\ ~TruthyStr(args.url)
         THEN /\ Raise(CubeJSConfigurationException, <<"Missing both subdomain and url.">>)
              /\ UNCHANGED <<auth_header, cubejs_client>>
       ELSE IF ~TruthyDict(args.selector)
         THEN /\ Raise(CubeJSConfigurationException, <<"Missing selector.">>)
              /\ UNCHANGED <<auth_header, cubejs_client>>
       ELSE IF ~TruthyObj(args.auth_header) /\ SecretMissing(args, environ)
         THEN /\ Raise(CubeJSConfigurationException,
                       <<"Missing api_secret and api_secret_env_var not found.">>)
              /\ UNCHANGED <<auth_header, cubejs_client>>
       ELSE LET header == ResolveAuthHeader(args)
            IN  /\ auth_header' = header
                /\ cubejs_client' =
                       Some(CubeJSClient(args.subdomain, args.url, header, None, None))
                /\ pc' = "submit"
                /\ UNCHANGED error
    /\ UNCHANGED <<invocations, task, args, environ, params, api_url, elapsed_wait_time, data,
                   returned, tokens, statuses, result, requests, responses,
                   post_response, sleeps, served, session, sent_headers>>

\* Variant: a status is a failure only when it starts with "failure".
RECURSIVE CheckLoop_StartsWith(_, _, _, _)
CheckLoop_StartsWith(payload, i, missing_only, in_process) ==
    IF i > Len(payload)
    THEN [raised |-> FALSE, status |-> <<>>,
          missing_only |-> missing_only, in_process |-> in_process]
    ELSE LET token == payload[i][1]
             status == payload[i][2].status
         IN  IF Find(status, FAILURE) = 0
             THEN [raised |-> TRUE, status |-> status,
                   missing_only |-> missing_only, in_process |-> in_process]
             ELSE CheckLoop_StartsWith(payload, i + 1,
                            IF status # MISSING_PARTITION THEN FALSE ELSE missing_only,
                            IF status # DONE THEN Append(in_process, token) ELSE in_process)

\* Variant: only a job that is neither done nor missing is in process.
RECURSIVE CheckLoop_MissingIsDone(_, _, _, _)
CheckLoop_MissingIsDone(payload, i, missing_only, in_process) ==
    IF i > Len(payload)
    THEN [raised |-> FALSE, status |-> <<>>,
          missing_only |-> missing_only, in_process |-> in_process]
    ELSE LET token == payload[i][1]
             status == payload[i][2].status
         IN  IF Find(status, FAILURE) >= 0
             THEN [raised |-> TRUE, status |-> status,
                   missing_only |-> missing_only, in_process |-> in_process]
             ELSE CheckLoop_MissingIsDone(payload, i + 1,
                            IF status # MISSING_PARTITION THEN FALSE ELSE missing_only,
                            IF status \notin {DONE, MISSING_PARTITION}
                            THEN Append(in_process, token) ELSE in_process)

\* Variant: one job with a missing partition makes missing_only true.
RECURSIVE CheckLoop_AnyMissing(_, _, _, _)
CheckLoop_AnyMissing(payload, i, missing_only, in_process) ==
    IF i > Len(payload)
    THEN [raised |-> FALSE, status |-> <<>>,
          missing_only |-> missing_only, in_process |-> in_process]
    ELSE LET token == payload[i][1]
             status == payload[i][2].status
         IN  IF Find(status, FAILURE) >= 0
             THEN [raised |-> TRUE, status |-> status,
                   missing_only |-> missing_only, in_process |-> in_process]
             ELSE CheckLoop_AnyMissing(payload, i + 1,
                            IF status = MISSING_PARTITION THEN TRUE
                            ELSE IF i = 1 THEN FALSE ELSE missing_only,
                            IF status # DONE THEN Append(in_process, token) ELSE in_process)

\* The for loop over statuses.keys(), from entry i on.  raised: a status
\* containing "failure" was met, and the loop left by the raise.
RECURSIVE CheckLoop(_, _, _, _)
CheckLoop(payload, i, missing_only, in_process) ==
    IF i > Len(payload)
    THEN [raised |-> FALSE, status |-> <<>>,
          missing_only |-> missing_only, in_process |-> in_process]
    ELSE LET token == payload[i][1]
             status == payload[i][2].status
         IN  IF Find(status, FAILURE) >= 0
             THEN [raised |-> TRUE, status |-> status,
                   missing_only |-> missing_only, in_process |-> in_process]
             ELSE CheckLoop(payload, i + 1,
                            IF status # MISSING_PARTITION THEN FALSE ELSE missing_only,
                            IF status # DONE THEN Append(in_process, token) ELSE in_process)

\* Variant: missing_only starts False.
Check_NeverMissing(payload) == CheckLoop(payload, 1, FALSE, <<>>)

\* The check of one status document: missing_only = True, in_process = [].
Check(payload) == CheckLoop(payload, 1, TRUE, <<>>)

\* Variant: the submit goes on to the waiting loop whatever the flag says.
HandleSubmitResponse_AlwaysWait(response) ==
    IF response.transport # "ok"
    THEN /\ Raise("ConnectionError", <<>>)
         /\ UNCHANGED <<tokens, result>>
    ELSE IF response.status = 200
    THEN /\ tokens' = Some(response.body)
         /\ IF Len(response.body) > 0
            THEN /\ pc' = "poll"
                 /\ UNCHANGED result
            ELSE /\ result' = Some(response.body)
                 /\ pc' = "done"
         /\ UNCHANGED error
    ELSE /\ Raise(CubeJSAPIFailureException,
                  <<"Cube pre-aggregations/jobs API failed: ">> \o response.reason)
         /\ UNCHANGED <<tokens, result>>

\* Variant: the waiting loop is entered with an empty token list too.
HandleSubmitResponse_PollsEmpty(response) ==
    IF response.transport # "ok"
    THEN /\ Raise("ConnectionError", <<>>)
         /\ UNCHANGED <<tokens, result>>
    ELSE IF response.status = 200
    THEN /\ tokens' = Some(response.body)
         /\ IF ~args.wait_for_job_run_completion
            THEN /\ result' = Some(response.body)
                 /\ pc' = "done"
            ELSE IF Len(response.body) >= 0
            THEN /\ pc' = "poll"
                 /\ UNCHANGED result
            ELSE /\ result' = Some(TRUE)
                 /\ pc' = "done"
         /\ UNCHANGED error
    ELSE /\ Raise(CubeJSAPIFailureException,
                  <<"Cube pre-aggregations/jobs API failed: ">> \o response.reason)
         /\ UNCHANGED <<tokens, result>>

\* What the submit does with its response.
HandleSubmitResponse(response) ==
    IF response.transport # "ok"
    THEN /\ Raise("ConnectionError", <<>>)
         /\ UNCHANGED <<tokens, result>>
    ELSE IF response.status = 200
    THEN /\ tokens' = Some(response.body)
         /\ IF ~args.wait_for_job_run_completion
            THEN /\ result' = Some(response.body)
                 /\ pc' = "done"
            ELSE IF Len(response.body) > 0
            THEN /\ pc' = "poll"
                 /\ UNCHANGED result
            ELSE /\ result' = Some(TRUE)
                 /\ pc' = "done"
         /\ UNCHANGED error
    ELSE /\ Raise(CubeJSAPIFailureException,
                  <<"Cube pre-aggregations/jobs API failed: ">> \o response.reason)
         /\ UNCHANGED <<tokens, result>>

\* The submit: tokens = cubejs_client.pre_aggregations_jobs(query), then
\* the return of the token list or the first test of the waiting loop.
build_submit ==
    /\ pc = "submit"
    /\ \E response \in SubmitResponses :
          /\ requests' =
                 Append(requests,
                        Request("POST", cubejs_client[1].pre_aggregations_jobs_api_url,
                                Dumps([action |-> "post", selector |-> args.selector[1]])))
          /\ post_response' = Some(response)
          /\ HandleSubmitResponse(response)
    /\ NewSession
    /\ sent_headers' = Append(sent_headers, session'[1])
    /\ UNCHANGED <<invocations, task, args, environ, params, api_url, elapsed_wait_time, data,
                   returned, statuses, responses, sleeps, served>>

\* Variant: a response that is not a 200 is followed by another round.
HandleStatusResponse_RetryOnError(response) ==
    IF response.transport # "ok"
    THEN /\ Raise("ConnectionError", <<>>)
         /\ UNCHANGED <<statuses, result>>
    ELSE IF response.status = 200
    THEN /\ statuses' = Some(response.body)
         /\ LET c == Check(response.body)
            IN  IF c.raised
                THEN /\ Raise(CubeJSAPIFailureException,
                              <<"Cube pre-aggregations build failed: ">>
                                  \o c.status \o <<".">>)
                     /\ UNCHANGED result
                ELSE IF c.missing_only
                THEN /\ Raise(CubeJSAPIFailureException,
                              <<"Cube pre-aggregations build failed: missing partitions.">>)
                     /\ UNCHANGED result
                ELSE IF Len(c.in_process) > 0
                THEN UNCHANGED <<pc, error, result>>
                ELSE /\ result' = Some(TRUE)
                     /\ pc' = "done"
                     /\ UNCHANGED error
    ELSE UNCHANGED <<pc, error, statuses, result>>

\* Variant: the exception of the missing partitions does not leave the loop.
HandleStatusResponse_MissingGoesOn(response) ==
    IF response.transport # "ok"
    THEN /\ Raise("ConnectionError", <<>>)
         /\ UNCHANGED <<statuses, result>>
    ELSE IF response.status = 200
    THEN /\ statuses' = Some(response.body)
         /\ LET c == Check(response.body)
            IN  IF c.raised
                THEN /\ Raise(CubeJSAPIFailureException,
                              <<"Cube pre-aggregations build failed: ">>
                                  \o c.status \o <<".">>)
                     /\ UNCHANGED result
                ELSE IF c.missing_only
                THEN /\ error' = Exception(CubeJSAPIFailureException,
                              <<"Cube pre-aggregations build failed: missing partitions.">>)
                     /\ UNCHANGED <<pc, result>>
                ELSE IF Len(c.in_process) > 0
                THEN UNCHANGED <<pc, error, result>>
                ELSE /\ result' = Some(TRUE)
                     /\ pc' = "done"
                     /\ UNCHANGED error
    ELSE /\ Raise(CubeJSAPIFailureException,
                  <<"Cube pre-aggregations/jobs API failed: ">> \o response.reason)
         /\ UNCHANGED <<statuses, result>>

\* What a round of the waiting loop does with the response to its fetch.
HandleStatusResponse(response) ==
    IF response.transport # "ok"
    THEN /\ Raise("ConnectionError", <<>>)
         /\ UNCHANGED <<statuses, result>>
    ELSE IF response.status = 200
    THEN /\ statuses' = Some(response.body)
         /\ LET c == Check(response.body)
            IN  IF c.raised
                THEN /\ Raise(CubeJSAPIFailureException,
                              <<"Cube pre-aggregations build failed: ">>
                                  \o c.status \o <<".">>)
                     /\ UNCHANGED result
                ELSE IF c.missing_only
                THEN /\ Raise(CubeJSAPIFailureException,
                              <<"Cube pre-aggregations build failed: missing partitions.">>)
                     /\ UNCHANGED result
                ELSE IF Len(c.in_process) > 0
                THEN UNCHANGED <<pc, error, result>>
                ELSE /\ result' = Some(TRUE)
                     /\ pc' = "done"
                     /\ UNCHANGED error
    ELSE /\ Raise(CubeJSAPIFailureException,
                  <<"Cube pre-aggregations/jobs API failed: ">> \o response.reason)
         /\ UNCHANGED <<statuses, result>>

\* What the server served in a round, in the words of the state machine of
\* the job batch; it is recorded, and read by no action.
PayloadKind(response) ==
    IF response.transport # "ok" THEN "transport_failure"
    ELSE IF response.status # 200 THEN "http_error"
    ELSE LET p == response.body
             st(i) == p[i][2].status
         IN  IF p = <<>> THEN "empty"
             ELSE IF \E i \in 1..Len(p) : Contains(st(i), FAILURE) THEN "failure"
             ELSE IF \A i \in 1..Len(p) : st(i) = MISSING_PARTITION THEN "all_missing"
             ELSE IF \A i \in 1..Len(p) : st(i) = DONE THEN "all_done"
             ELSE "pending"

\* Variant: the status fetch asks only for the jobs that the latest status
\* document does not report done.
StatusQuery_Pending ==
    LET done(t) == /\ statuses # None
                   /\ \E i \in 1..Len(statuses[1]) :
                         statuses[1][i][1] = t /\ statuses[1][i][2].status = DONE
        pending(t) == ~done(t)
    IN  Dumps([action |-> "get", resType |-> "object",
               tokens |-> SelectSeq(tokens[1], pending)])

\* query = json.dumps({"action": "get", "resType": "object", "tokens": tokens})
StatusQuery ==
    Dumps([action |-> "get", resType |-> "object", tokens |-> tokens[1]])

\* One round of the waiting loop: sleep, fetch the statuses, check them.
\* time.sleep raises ValueError on a negative duration.
build_poll ==
    /\ pc = "poll"
    /\ Len(requests) < MaxCalls
    /\ IF args.wait_time_between_api_calls < 0
       THEN /\ Raise("ValueError", <<"sleep length must be non-negative">>)
            /\ KeepSession
            /\ UNCHANGED <<statuses, result, requests, post_response, sleeps, served,
                           sent_headers>>
       ELSE /\ sleeps' = Append(sleeps, args.wait_time_between_api_calls)
            /\ NewSession
            /\ sent_headers' = Append(sent_headers, session'[1])
            /\ \E response \in StatusResponses :
                  /\ requests' =
                         Append(requests,
                                Request("POST",
                                        cubejs_client[1].pre_aggregations_jobs_api_url,
                                        StatusQuery))
                  /\ post_response' = Some(response)
                  /\ served' = Append(served, PayloadKind(response))
                  /\ HandleStatusResponse(response)
    /\ UNCHANGED <<invocations, task, args, environ, params, api_url, elapsed_wait_time, data,
                   returned, tokens, responses>>

Next ==
    \/ run_query
    \/ _get_data_from_url
    \/ _get_data_from_url_ceiling
    \/ build_pre_aggregations
    \/ build_submit
    \/ build_poll

Spec == Init /\ [][Next]_vars

\* The same tasks, called with every kind of security context.
SpecExpiry == InitExpiry /\ [][Next]_vars

(***************************************************************************)
(* Two concurrent calls of get_data on one client.                         *)
(*                                                                         *)
(* A task has built its client; two threads call get_data(params) on it.   *)
(* auth_header and cubejs_client are the objects both calls use; the       *)
(* locals of each call (its Session, its elapsed_wait_time, ...) are in   *)
(* invocations.  A thread can be preempted between two statements, so the  *)
(* test of api_token, its item assignment and its jwt.encode are steps of  *)
(* their own.                                                              *)
(***************************************************************************)
Callers == {1, 2}

\* What the server answers to a concurrent call.
ConcurrentResponses ==
    {Http(200, <<"OK">>, [error |-> ContinueWait]),
     Http(200, <<"OK">>, [data |-> <<"rows">>]),
     Http(500, <<"Internal Server Error">>, [error |-> <<"500">>])}

\* A call that has not started.
NewCall ==
    [pc |-> "start", seen |-> None, needs_expiry |-> FALSE, session |-> None,
     elapsed_wait_time |-> 0, responses |-> <<>>, result |-> None, error |-> NoError]

\* The client is built as run_query builds it, from an auth_header.
InitConcurrent ==
    /\ task = "run_query"
    /\ args \in {a \in ExpiryRunQueryArgs :
                    a.auth_header # None /\ ~a.include_generated_sql}
    /\ environ = {}
    /\ Relevant(args, environ)
    /\ pc = "concurrent"
    /\ auth_header = args.auth_header
    /\ cubejs_client =
           Some(CubeJSClient(args.subdomain, args.url, args.auth_header,
                             WaitApiCallSecs(args.wait_time_between_api_calls),
                             args.max_wait_time))
    /\ params = Some([query |-> Dumps(args.query[1])])
    /\ api_url = Some(cubejs_client[1].query_api_url)
    /\ elapsed_wait_time = 0
    /\ data = None
    /\ returned = <<>>
    /\ tokens = None
    /\ statuses = None
    /\ result = None
    /\ error = NoError
    /\ requests = <<>>
    /\ responses = <<>>
    /\ post_response = None
    /\ sleeps = <<>>
    /\ served = <<>>
    /\ session = None
    /\ sent_headers = <<>>
    /\ invocations = [i \in Callers |-> NewCall]

\* What a concurrent call leaves alone: the task's own locals and logs.
CallFrame ==
    UNCHANGED <<task, args, environ, pc, params, api_url, elapsed_wait_time, data,
                returned, tokens, statuses, result, error, requests, responses,
                post_response, sleeps, served, session, sent_headers>>

\* api_token up to its test: the call takes the dict of the security
\* context and tests it for exp and expiresIn.
api_token_test(i) ==
    /\ invocations[i].pc = "start"
    /\ IF auth_header[1].security_context # None
       THEN LET context == auth_header[1].security_context[1]
                needs == "exp" \notin DOMAIN context /\ "expiresIn" \notin DOMAIN context
            IN  invocations' = [invocations EXCEPT ![i].seen = Some(context),
                                       ![i].needs_expiry = needs,
                                       ![i].pc = IF needs THEN "assign" ELSE "encode"]
       ELSE invocations' = [invocations EXCEPT ![i].pc = "encode"]
    /\ UNCHANGED <<auth_header, cubejs_client>>
    /\ CallFrame

\* extended_context["expiresIn"] = "7d", on the dict of the block.
api_token_assign(i) ==
    /\ invocations[i].pc = "assign"
    /\ auth_header' =
           Some([auth_header[1] EXCEPT !.security_context =
                     Some(SetItem(auth_header[1].security_context[1],
                                  "expiresIn", <<"7d">>))])
    /\ cubejs_client' = Some([cubejs_client[1] EXCEPT !.auth_header = auth_header'])
    /\ invocations' = [invocations EXCEPT ![i].pc = "encode"]
    /\ CallFrame

\* jwt.encode over the dict as it is now, and the Session of the call with
\* its headers; elapsed_wait_time = 0.
api_token_encode(i) ==
    /\ invocations[i].pc = "encode"
    /\ LET payload == IF auth_header[1].security_context # None
                      THEN auth_header[1].security_context[1] ELSE <<>>
           token == SecretStr(jwt_encode(payload, auth_header[1].api_secret, "HS256"))
       IN  invocations' = [invocations EXCEPT
               ![i].session = Some([Content_type |-> <<"application/json">>,
                                    Authorization |-> get_secret_value(token)]),
               ![i].elapsed_wait_time = 0,
               ![i].pc = "loop"]
    /\ UNCHANGED <<auth_header, cubejs_client>>
    /\ CallFrame

\* One iteration of the while loop of the call.
call_get_data_from_url(i) ==
    /\ invocations[i].pc = "loop"
    /\ LoopGuard(cubejs_client[1].max_wait_time, invocations[i].elapsed_wait_time)
    /\ Len(invocations[i].responses) < MaxCallsEach
    /\ \E response \in ConcurrentResponses :
          LET got == Append(invocations[i].responses, response)
          IN  IF response.status = 200
              THEN IF IsContinueWait(response.body)
                   THEN invocations' = [invocations EXCEPT
                            ![i].responses = got,
                            ![i].elapsed_wait_time =
                                @ + cubejs_client[1].wait_api_call_secs]
                   ELSE invocations' = [invocations EXCEPT
                            ![i].responses = got,
                            ![i].result = Some(response.body),
                            ![i].pc = "done"]
              ELSE invocations' = [invocations EXCEPT
                       ![i].responses = got,
                       ![i].error =
                           Exception(CubeJSAPIFailureException,
                                     <<"Cube.js load API failed! Error is: ">>
                                         \o response.reason),
                       ![i].pc = "failed"]
    /\ UNCHANGED <<auth_header, cubejs_client>>
    /\ CallFrame

\* The loop test of the call fails.
call_ceiling(i) ==
    /\ invocations[i].pc = "loop"
    /\ ~LoopGuard(cubejs_client[1].max_wait_time, invocations[i].elapsed_wait_time)
    /\ invocations' = [invocations EXCEPT
           ![i].error =
               Exception(CubeJSAPIFailureException,
                         <<"Cube.js API took longer than ",
                           FormatInt(cubejs_client[1].max_wait_time),
                           " seconds to provide a response.">>),
           ![i].pc = "failed"]
    /\ UNCHANGED <<auth_header, cubejs_client>>
    /\ CallFrame

NextConcurrent ==
    \/ \E i \in Callers : api_token_test(i)
    \/ \E i \in Callers : api_token_assign(i)
    \/ \E i \in Callers : api_token_encode(i)
    \/ \E i \in Callers : call_get_data_from_url(i)
    \/ \E i \in Callers : call_ceiling(i)

SpecConcurrent == InitConcurrent /\ [][NextConcurrent]_vars

(***************************************************************************)
(* Properties of the data-load fetch (_get_data_from_url).                 *)
(*                                                                         *)
(* The properties read the server's answers on their own terms, not with   *)
(* the operators of the model of the client.                               *)
(***************************************************************************)
Is200(r) == r.transport = "ok" /\ r.status = 200

\* An HTTP-200 answer whose error text holds "Continue wait".
SaysContinueWait(r) ==
    /\ Is200(r)
    /\ "error" \in DOMAIN r.body
    /\ \E j \in 1..Len(r.body.error) : r.body.error[j] = "Continue wait"

\* An HTTP-200 answer without that signal.
Answers(r) == Is200(r) /\ ~SaysContinueWait(r)

\* The invocation is a run_query that passed its argument checks.
Fetching == task = "run_query" /\ cubejs_client # None

LoadUrl == cubejs_client[1].query_api_url

SqlUrl == cubejs_client[1].generated_sql_api_url

\* The requests sent to url, by position in the log.
CallsTo(url) == {i \in 1..Len(requests) : requests[i].url = url}

Last(S) == CHOOSE i \in S : \A j \in S : j <= i

\* The rank of request i among the requests to its URL.
Rank(i) == Cardinality({j \in CallsTo(requests[i].url) : j <= i})

\* The position of a fetch among the calls of _get_data_from_url, and the
\* pc of the invocation while that fetch is running.
FetchNo(url) == IF url = LoadUrl THEN 1 ELSE 2

PhaseOf(url) == IF url = LoadUrl THEN "load" ELSE "sql"

Waited == cubejs_client[1].wait_api_call_secs

\* C1, for the fetch of one URL.
NPlusOneCalls(url) ==
    LET calls == CallsTo(url)
        N == Cardinality({i \in calls : SaysContinueWait(responses[i])})
    IN  /\ \A i \in calls :
              requests[i] = Request("GET", url, [query |-> Dumps(args.query[1])])
        /\ (calls # {} /\ SaysContinueWait(responses[Last(calls)])) =>
              pc = PhaseOf(url)
        /\ (\E i \in calls : Answers(responses[i])) =>
              /\ Cardinality(calls) = N + 1
              /\ Answers(responses[Last(calls)])
              /\ pc # PhaseOf(url)
              /\ Len(returned) >= FetchNo(url)
              /\ returned[FetchNo(url)] = responses[Last(calls)].body

\* C1: with no max_wait_time, N "Continue wait" answers followed by one
\* HTTP-200 answer without the signal make exactly N + 1 GETs, all to the
\* same URL with the same params, and the fetch returns the body of the
\* last answer; while the last answer is "Continue wait" the fetch goes on.
C1_ContinueWaitThenAnswer ==
    (Fetching /\ args.max_wait_time = None) =>
        /\ Len(responses) = Len(requests)
        /\ \A i \in 1..Len(requests) : requests[i].url \in {LoadUrl, SqlUrl}
        /\ NPlusOneCalls(LoadUrl)
        /\ NPlusOneCalls(SqlUrl)

\* Two "Continue wait" answers, then a document: three GETs, and the
\* document is the result.
C1_Witness ==
    /\ Fetching /\ args.max_wait_time = None /\ pc = "done"
    /\ Len(requests) = 3
    /\ SaysContinueWait(responses[1]) /\ SaysContinueWait(responses[2])
    /\ Answers(responses[3])
    /\ result = Some(responses[3].body)

\* The exception of the exceeded ceiling.
CeilingFailure ==
    /\ pc = "failed"
    /\ error.kind = CubeJSAPIFailureException
    /\ error.msg # <<>>
    /\ error.msg[1] = "Cube.js API took longer than "

C3_Non200FailsImmediately ==
    task = "run_query" =>
        \A i \in 1..Len(responses) :
            (responses[i].transport = "ok" /\ responses[i].status # 200) =>
                /\ i = Len(responses)
                /\ Len(requests) = i
                /\ pc = "failed"
                /\ error.kind = CubeJSAPIFailureException
                /\ error.msg = <<"Cube.js load API failed! Error is: ">>
                                   \o responses[i].reason
                /\ Len(sleeps) =
                       Cardinality({j \in 1..(i - 1) : SaysContinueWait(responses[j])})

\* Two "Continue wait" rounds, then a 500.
C3_Witness ==
    /\ task = "run_query" /\ pc = "failed"
    /\ Len(responses) = 3
    /\ SaysContinueWait(responses[1]) /\ SaysContinueWait(responses[2])
    /\ responses[3].transport = "ok" /\ responses[3].status = 500
    /\ Len(sleeps) = 2

\* An HTTP-200 answer with an error text that is not the signal.
OtherError(r) == Is200(r) /\ "error" \in DOMAIN r.body /\ ~SaysContinueWait(r)

\* C4: within a fetch a further request is sent only directly after an
\* HTTP-200 "Continue wait" answer; an HTTP-200 body with any other error
\* text is returned as it is after that attempt; a transport failure or a
\* status other than 200 ends the call without another attempt.
C4_OnlyContinueWaitRetries ==
    Fetching =>
        /\ \A i \in 2..Len(requests) :
              requests[i].url = requests[i - 1].url => SaysContinueWait(responses[i - 1])
        /\ \A i \in 1..Len(responses) :
              /\ OtherError(responses[i]) =>
                    /\ i = Last(CallsTo(requests[i].url))
                    /\ Len(returned) >= FetchNo(requests[i].url)
                    /\ returned[FetchNo(requests[i].url)] = responses[i].body
                    /\ pc # PhaseOf(requests[i].url)
              /\ ~Is200(responses[i]) =>
                    /\ i = Len(requests)
                    /\ pc = "failed"

\* One attempt, answered 200 with another error text, which is the result.
C4_Witness ==
    /\ Fetching /\ pc = "done"
    /\ Len(requests) = 1
    /\ OtherError(responses[1])
    /\ result = Some(responses[1].body)

(***************************************************************************)
(* Properties of the job batch (build_pre_aggregations).                   *)
(***************************************************************************)
\* The invocation is a build_pre_aggregations that waits for its jobs.
Waiting == task = "build_pre_aggregations" /\ args.wait_for_job_run_completion

\* The latest status document, and the status text of its i-th job.
Payload == statuses[1]

StatusOf(i) == Payload[i][2].status

\* Some fragment of the status text is "failure".
SaysFailure(status) == \E j \in 1..Len(status) : status[j] = "failure"

\* The batch ended Failed / NoLiveJobs / AllDone.
Failed ==
    /\ pc = "failed"
    /\ error.kind = CubeJSAPIFailureException
    /\ error.msg # <<>>
    /\ error.msg[1] = "Cube pre-aggregations build failed: "

NoLiveJobs ==
    /\ pc = "failed"
    /\ error = Exception(CubeJSAPIFailureException,
                         <<"Cube pre-aggregations build failed: missing partitions.">>)

AllDone == pc = "done" /\ result = Some(TRUE)

\* The status fetches sent so far.
StatusFetches ==
    {i \in 1..Len(requests) : requests[i].data[2].action = "get"}

\* C5: a status document in which some job's status contains "failure" ends
\* the batch Failed in the round that fetched it, with a message containing
\* that status text, whatever the other jobs report: the failure rule goes
\* before the all-missing rule and before further polling.
C5_FailureEndsBatch ==
    (Waiting /\ statuses # None) =>
        ((\E i \in 1..Len(Payload) : SaysFailure(StatusOf(i))) =>
            /\ Failed
            /\ \E i \in 1..Len(Payload) :
                  /\ SaysFailure(StatusOf(i))
                  /\ Contains(error.msg, StatusOf(i))
            /\ ~NoLiveJobs
            /\ Cardinality(StatusFetches) = Len(served)
            /\ served[Len(served)] = "failure")

\* One job done, the other failed with a text in which "failure" is not
\* the first word, in the first round.
C5_Witness ==
    /\ Waiting /\ statuses # None /\ Failed
    /\ Len(Payload) = 2
    /\ StatusOf(1) = DONE
    /\ StatusOf(2) = <<"build ", "failure">>
    /\ Len(served) = 1

\* C6: a status document without a failure in which every job reports
\* exactly "missing_partition" ends the batch NoLiveJobs, with the message
\* of the missing partitions, in the round that fetched it.
C6_AllMissingEndsBatch ==
    (Waiting /\ statuses # None) =>
        ((\A i \in 1..Len(Payload) : StatusOf(i) = MISSING_PARTITION) =>
            /\ NoLiveJobs
            /\ Cardinality(StatusFetches) = Len(served)
            /\ served[Len(served)] \in {"all_missing", "empty"})

\* Two jobs, both missing_partition, in the second round.
C6_Witness ==
    /\ Waiting /\ statuses # None /\ NoLiveJobs
    /\ Len(Payload) = 2
    /\ StatusOf(1) = MISSING_PARTITION /\ StatusOf(2) = MISSING_PARTITION
    /\ Len(served) = 2

\* Token t is reported "done" by the latest status document.
ReportedDone(t) ==
    /\ statuses # None
    /\ \E i \in 1..Len(Payload) : Payload[i][1] = t /\ StatusOf(i) = DONE

\* C7: the task returns True only when every token returned by the submit
\* is reported "done" by the latest status document.
C7_TrueOnlyWhenAllSubmittedDone ==
    (Waiting /\ pc = "done") =>
        \A k \in 1..Len(tokens[1]) : ReportedDone(tokens[1][k])

\* served is k "pending" documents followed by one "all_done" document.
PendingThenDone ==
    /\ served # <<>>
    /\ served[Len(served)] = "all_done"
    /\ \A i \in 1..(Len(served) - 1) : served[i] = "pending"

AllPending == \A i \in 1..Len(served) : served[i] = "pending"

\* C8: with a non-empty token list, k status documents with a job that is
\* not done (no failure, not all missing) followed by one in which all jobs
\* are done make exactly k + 1 status fetches, k + 2 POSTs with the submit,
\* and the result True; after k such documents alone the batch is polling.
C8_PollRoundsUntilDone ==
    (Waiting /\ tokens # None /\ tokens[1] # <<>>) =>
        /\ PendingThenDone =>
              /\ AllDone
              /\ Cardinality(StatusFetches) = Len(served)
              /\ Len(requests) = Len(served) + 1
              /\ \A i \in 1..Len(requests) : requests[i].method = "POST"
              /\ Len(sleeps) = Len(served)
        /\ (served # <<>> /\ AllPending) =>
              /\ pc = "poll"
              /\ Len(requests) = Len(served) + 1

\* One document in progress, then one all done: two status fetches after
\* the submit.
C8_Witness ==
    /\ Waiting /\ AllDone
    /\ served = <<"pending", "all_done">>
    /\ Len(requests) = 3
    /\ Cardinality(StatusFetches) = 2

\* C9: without wait_for_job_run_completion the task sends exactly one POST,
\* the submit, returns the token list of its response, and never polls: no
\* sleep, no status fetch.
C9_FireAndForget ==
    (task = "build_pre_aggregations" /\ ~args.wait_for_job_run_completion) =>
        /\ pc # "poll"
        /\ sleeps = <<>>
        /\ StatusFetches = {}
        /\ statuses = None
        /\ pc = "done" =>
              /\ Len(requests) = 1
              /\ requests[1].method = "POST"
              /\ requests[1].data[2].action = "post"
              /\ Is200(post_response[1])
              /\ result = Some(post_response[1].body)
        /\ (post_response # None /\ Is200(post_response[1])) => pc = "done"

\* The submit answered with two tokens, which are the result.
C9_Witness ==
    /\ task = "build_pre_aggregations" /\ ~args.wait_for_job_run_completion
    /\ pc = "done"
    /\ result = Some(<<"t1", "t2">>)
    /\ Len(requests) = 1

(***************************************************************************)
(* Properties of the argument checks.                                      *)
(***************************************************************************)
\* An argument is missing: None or empty.
Missing(o) == o = None \/ o = Some(<<>>)

NoTarget == Missing(args.subdomain) /\ Missing(args.url)

NoQueryOrSelector ==
    IF task = "run_query" THEN Missing(args.query) ELSE Missing(args.selector)

NoSecret ==
    /\ args.auth_header = None
    /\ Missing(args.api_secret)
    /\ args.api_secret_env_var[1] \notin environ

ConfigurationError ==
    pc = "failed" /\ error.kind = CubeJSConfigurationException

\* C10: both tasks raise CubeJSConfigurationException, with no request
\* sent, when subdomain and url are both missing, when the query (the
\* selector) is missing, or when there is no auth_header and no API secret
\* can be resolved; and that exception is never raised after a request.
C10_ConfigurationErrorBeforeAnyRequest ==
    /\ ConfigurationError => requests = <<>>
    /\ (pc # "start" /\ (NoTarget \/ NoQueryOrSelector \/ NoSecret)) =>
          /\ ConfigurationError
          /\ requests = <<>>
          /\ post_response = None /\ responses = <<>>

\* build_pre_aggregations with a target and a selector but no secret.
C10_Witness ==
    /\ task = "build_pre_aggregations"
    /\ ConfigurationError
    /\ ~NoTarget /\ ~NoQueryOrSelector /\ NoSecret
    /\ requests = <<>>

(***************************************************************************)
(* Properties of get_data: the generated SQL.                              *)
(***************************************************************************)
\* The body of the answer that ended the fetch of url.
AnswerTo(url) == responses[Last(CallsTo(url))].body

\* Both fetches of a run_query with include_generated_sql were answered,
\* the second with a document that has a sql field.
BothFetchesSucceeded ==
    /\ Fetching /\ args.include_generated_sql
    /\ CallsTo(LoadUrl) # {} /\ Answers(responses[Last(CallsTo(LoadUrl))])
    /\ CallsTo(SqlUrl) # {} /\ Answers(responses[Last(CallsTo(SqlUrl))])
    /\ "sql" \in DOMAIN AnswerTo(SqlUrl)

\* C11: with include_generated_sql, once both fetches have succeeded the
\* task returns a document that has the fields of the /v1/load answer and
\* the field sql, every field of the /v1/load answer other than sql with
\* its value, and sql with the value of the sql field of the /v1/sql answer.
C11_SqlAugmentation ==
    BothFetchesSucceeded =>
        /\ pc = "done"
        /\ result # None
        /\ DOMAIN result[1] = DOMAIN AnswerTo(LoadUrl) \cup {"sql"}
        /\ \A k \in DOMAIN AnswerTo(LoadUrl) \ {"sql"} :
              result[1][k] = AnswerTo(LoadUrl)[k]
        /\ result[1].sql = AnswerTo(SqlUrl).sql

\* The rows of /v1/load, then the SQL of /v1/sql after one "Continue wait".
C11_Witness ==
    /\ BothFetchesSucceeded
    /\ Len(requests) = 3
    /\ AnswerTo(LoadUrl) = [data |-> <<"rows">>]
    /\ result = Some([data |-> <<"rows">>, sql |-> <<"SELECT 1">>])

\* C12: every request to /v1/sql comes with include_generated_sql true,
\* after every request to /v1/load and after a /v1/load answer that ended
\* the primary fetch successfully, and carries the params of the primary
\* fetch; without the flag, or when the primary fetch failed, no request
\* goes to /v1/sql.
C12_SqlOnlyAfterLoadSucceeded ==
    Fetching =>
        LET load == CallsTo(LoadUrl)
            sql == CallsTo(SqlUrl)
        IN  /\ \A i \in sql :
                  /\ args.include_generated_sql
                  /\ load # {}
                  /\ Last(load) < i
                  /\ Answers(responses[Last(load)])
                  /\ requests[i].method = "GET"
                  /\ requests[i].data = requests[Last(load)].data
            /\ ~args.include_generated_sql => sql = {}
            /\ (pc = "failed" /\ load # {} /\ ~Answers(responses[Last(load)])) =>
                  sql = {}
            /\ (pc = "sql") => args.include_generated_sql

\* The primary fetch needed two attempts, the SQL fetch is on its second.
C12_Witness ==
    /\ Fetching /\ args.include_generated_sql
    /\ Len(requests) = 4
    /\ CallsTo(LoadUrl) = {1, 2}
    /\ CallsTo(SqlUrl) = {3, 4}
    /\ pc = "sql"

(***************************************************************************)
(* Properties of the polling rounds of build_pre_aggregations.             *)
(***************************************************************************)
\* C13: every status fetch goes to the jobs endpoint with the token list
\* that the submit returned, whole and in its order, whatever the status
\* documents of the rounds before reported; the list the task holds is the
\* answer to the submit and is not empty while polling.
C13_StatusFetchSendsAllTokens ==
    (Waiting /\ tokens # None) =>
        /\ (served = <<>>) => tokens[1] = post_response[1].body
        /\ \A i \in StatusFetches :
              /\ i > 1
              /\ tokens[1] # <<>>
              /\ requests[i] =
                     Request("POST", cubejs_client[1].pre_aggregations_jobs_api_url,
                             Dumps([action |-> "get", resType |-> "object",
                                    tokens |-> tokens[1]]))
        /\ Cardinality(StatusFetches) = Len(requests) - 1

\* Two tokens; the first round reported t1 done and t2 in progress, and a
\* second status fetch was sent.
C13_Witness ==
    /\ Waiting
    /\ tokens = Some(<<"t1", "t2">>)
    /\ Len(served) = 3
    /\ served[1] = "pending" /\ served[2] = "pending"
    /\ statuses # None
    /\ ReportedDone("t1") /\ ~ReportedDone("t2")
    /\ requests[4].data[2].tokens = <<"t1", "t2">>

\* The outcomes of a batch, read from what the caller gets.
EndedAllDone == result = Some(TRUE)

EndedFailed ==
    /\ error.kind = CubeJSAPIFailureException
    /\ error.msg # <<>>
    /\ error.msg[1] = "Cube pre-aggregations build failed: "

EndedNoLiveJobs ==
    error = Exception(CubeJSAPIFailureException,
                      <<"Cube pre-aggregations build failed: missing partitions.">>)

\* C14: the batch starts Submitted: right after the submit no status was
\* fetched and no sleep taken, and every status fetch comes after the
\* submit.  AllDone, Failed and NoLiveJobs are absorbing: in such a state no
\* step of the invocation is possible, and in the log only the last status
\* document can be one that ends the batch, each fetch after one sleep.
C14_SubmittedFirstTerminalAbsorbing ==
    Waiting =>
        /\ (pc = "poll" /\ served = <<>>) =>
              /\ tokens # None /\ tokens[1] # <<>>
              /\ statuses = None
              /\ sleeps = <<>>
              /\ Len(requests) = 1
        /\ (statuses # None \/ served # <<>> \/ sleeps # <<>>) =>
              /\ tokens # None
              /\ requests[1].data[2].action = "post"
        /\ (EndedAllDone \/ EndedFailed \/ EndedNoLiveJobs) =>
              /\ pc \in {"done", "failed"}
              /\ ~ENABLED Next
        /\ \A i \in 1..(Len(served) - 1) : served[i] = "pending"
        /\ Len(sleeps) = Len(served)

\* A round in progress, then a document with missing partitions only.
C14_Witness ==
    /\ Waiting /\ EndedNoLiveJobs
    /\ served = <<"pending", "all_missing">>
    /\ Len(sleeps) = 2
    /\ Len(requests) = 3

(***************************************************************************)
(* Properties of the errors.                                               *)
(***************************************************************************)
\* Every request so far got an HTTP answer, and no sleep was refused.
AllAnswered ==
    /\ \A i \in 1..Len(responses) : responses[i].transport = "ok"
    /\ post_response # None => post_response[1].transport = "ok"
    /\ args.wait_time_between_api_calls >= 0

\* C15: whatever the server answers, a task that fails fails with
\* CubeJSConfigurationException before any request or with
\* CubeJSAPIFailureException after a request, and with no other error.
C15_OnlyTwoErrorKinds ==
    (pc = "failed" /\ AllAnswered) =>
        \/ error.kind = CubeJSConfigurationException /\ requests = <<>>
        \/ error.kind = CubeJSAPIFailureException /\ requests # <<>>

\* C16: an answer of the jobs endpoint whose status is not 200, to the
\* submit or to the status fetch of any round, ends the task at once with
\* CubeJSAPIFailureException carrying the reason: no step follows, it is
\* the answer to the last request, and no round before it had such an
\* answer.
C16_JobsNon200FailsImmediately ==
    (task = "build_pre_aggregations" /\ post_response # None) =>
        /\ (post_response[1].transport = "ok" /\ post_response[1].status # 200) =>
              /\ pc = "failed"
              /\ error = Exception(CubeJSAPIFailureException,
                                   <<"Cube pre-aggregations/jobs API failed: ">>
                                       \o post_response[1].reason)
              /\ ~ENABLED Next
              /\ Len(requests) = Len(served) + 1
              /\ served # <<>> => served[Len(served)] = "http_error"
        /\ \A i \in 1..(Len(served) - 1) : served[i] # "http_error"

\* Two rounds in progress, then a 500.
C16_Witness ==
    /\ task = "build_pre_aggregations"
    /\ served = <<"pending", "pending", "http_error">>
    /\ post_response[1].status = 500
    /\ pc = "failed"
    /\ Len(requests) = 4

(***************************************************************************)
(* Properties of the token (AuthHeader.api_token).                         *)
(***************************************************************************)
\* The claim mapping and the secret that the caller supplied, in an
\* auth_header or in security_context / api_secret (an empty mapping passed
\* as security_context counts as none).
SuppliedClaims ==
    IF args.auth_header # None THEN args.auth_header[1].security_context
    ELSE IF Missing(args.security_context) THEN None
    ELSE args.security_context

SuppliedSecret ==
    IF args.auth_header # None THEN args.auth_header[1].api_secret
    ELSE IF ~Missing(args.api_secret) THEN args.api_secret[1]
    ELSE <<"secret-of-">> \o args.api_secret_env_var[1]

\* C17: the security context that the AuthHeader in use stores is, after
\* any number of token builds, the claim mapping that was supplied: same
\* keys, same values.
C17_SecurityContextUnchanged ==
    auth_header # None => auth_header[1].security_context = SuppliedClaims

HasExpiry(claims) == "exp" \in DOMAIN claims \/ "expiresIn" \in DOMAIN claims

\* The payload C18 asks for.
SignedClaims ==
    IF SuppliedClaims = None THEN <<>>
    ELSE LET claims == SuppliedClaims[1]
         IN  IF HasExpiry(claims) THEN claims
             ELSE [k \in DOMAIN claims \cup {"expiresIn"} |->
                      IF k = "expiresIn" THEN <<"7d">> ELSE claims[k]]

Retries(url) == {i \in CallsTo(url) : SaysContinueWait(responses[i])}

\* C19: in run_query every sleep lasts wait_time_between_api_calls when
\* that is > 0 and 10 otherwise, there is one sleep per "Continue wait"
\* answer, and while a fetch runs its elapsed time is that interval times
\* the number of its retries: each retry adds the interval, which is > 0.
C19_RunQueryInterval ==
    Fetching =>
        LET interval == IF args.wait_time_between_api_calls > 0
                        THEN args.wait_time_between_api_calls ELSE 10
        IN  /\ interval > 0
            /\ \A i \in 1..Len(sleeps) : sleeps[i] = interval
            /\ Len(sleeps) = Cardinality(Retries(LoadUrl)) + Cardinality(Retries(SqlUrl))
            /\ pc \in {"load", "sql"} =>
                  elapsed_wait_time = interval * Cardinality(Retries(api_url[1]))

\* wait_time_between_api_calls = 0: two retries, each after 10 seconds.
C19_Witness ==
    /\ Fetching /\ args.wait_time_between_api_calls = 0
    /\ pc = "load"
    /\ sleeps = <<10, 10>>
    /\ elapsed_wait_time = 20

\* C20: in a build_pre_aggregations that waits, every sleep before a status
\* fetch lasts wait_time_between_api_calls when that is > 0 and 10
\* otherwise.
C20_BuildIntervalCoerced ==
    Waiting =>
        \A i \in 1..Len(sleeps) :
            sleeps[i] = IF args.wait_time_between_api_calls > 0
                        THEN args.wait_time_between_api_calls ELSE 10

(***************************************************************************)
(* Properties of the wait ceiling of _get_data_from_url.                   *)
(***************************************************************************)
\* The answers to the requests of the fetch that is running or ran last.
CurrentCalls == CallsTo(api_url[1])

\* C21: with max_wait_time None the ceiling failure never happens; while
\* a fetch runs the next step is another attempt whatever the number of
\* "Continue wait" answers so far, and a fetch that is over got, as its
\* last answer, something other than an HTTP-200 "Continue wait".
C21_NoCeilingWithoutMaxWaitTime ==
    (Fetching /\ args.max_wait_time = None) =>
        /\ ~CeilingFailure
        /\ ~ENABLED _get_data_from_url_ceiling
        /\ pc \in {"load", "sql"} =>
              /\ \A i \in CurrentCalls : SaysContinueWait(responses[i])
              /\ Len(requests) < MaxCalls => ENABLED _get_data_from_url
        /\ pc \in {"done", "failed"} =>
              /\ CurrentCalls # {}
              /\ ~SaysContinueWait(responses[Last(CurrentCalls)])
              /\ responses[Last(CurrentCalls)].transport = "ok" =>
                    \/ Answers(responses[Last(CurrentCalls)])
                    \/ responses[Last(CurrentCalls)].status # 200

\* Four "Continue wait" answers in a row, and the fetch goes on.
C21_Witness ==
    /\ Fetching /\ args.max_wait_time = None
    /\ pc = "load"
    /\ Len(requests) = 4
    /\ \A i \in 1..4 : SaysContinueWait(responses[i])
    /\ ENABLED _get_data_from_url

\* C22: at every point of a run_query the elapsed time of the fetch in
\* hand is the client's wait interval times the number of "Continue wait"
\* answers that fetch has got, so it grows with them and with nothing
\* else; every sleep lasts that interval and there is one per such answer.
C22_ElapsedIsIntervalTimesRetries ==
    Fetching =>
        /\ elapsed_wait_time >= 0
        /\ elapsed_wait_time = Waited * Cardinality(Retries(api_url[1]))
        /\ \A i \in 1..Len(sleeps) : sleeps[i] = Waited
        /\ Len(sleeps) =
               Cardinality({i \in 1..Len(responses) : SaysContinueWait(responses[i])})

\* Three retries of the primary fetch at interval 2, then its answer.
C22_Witness ==
    /\ Fetching /\ Waited = 2
    /\ Len(requests) = 4
    /\ \A i \in 1..3 : SaysContinueWait(responses[i])
    /\ Answers(responses[4])
    /\ elapsed_wait_time = 6
    /\ pc = "done"

\* C23: with max_wait_time > 0 (the interval is > 0) no fetch sends more
\* than max_wait_time \div interval + 1 requests; a fetch that has sent
\* that many and got "Continue wait" each time can only fail on the ceiling,
\* and the ceiling failure comes after exactly that many requests.
C23_RequestsBoundedByCeiling ==
    (Fetching /\ args.max_wait_time # None /\ args.max_wait_time[1] > 0) =>
        LET most == (args.max_wait_time[1] \div Waited) + 1
        IN  /\ Waited > 0
            /\ Cardinality(CallsTo(LoadUrl)) <= most
            /\ Cardinality(CallsTo(SqlUrl)) <= most
            /\ (pc \in {"load", "sql"} /\ Cardinality(CurrentCalls) = most) =>
                  /\ ENABLED _get_data_from_url_ceiling
                  /\ ~ENABLED _get_data_from_url
            /\ (pc \in {"load", "sql"} /\ Cardinality(CurrentCalls) < most
                  /\ Len(requests) < MaxCalls) =>
                  /\ ~ENABLED _get_data_from_url_ceiling
                  /\ ENABLED _get_data_from_url
            /\ CeilingFailure =>
                  /\ Cardinality(CurrentCalls) = most
                  /\ \A i \in CurrentCalls : SaysContinueWait(responses[i])

\* max_wait_time 3, interval 2: 3 \div 2 + 1 = 2 requests, then the failure.
C23_Witness ==
    /\ Fetching /\ args.max_wait_time = Some(3) /\ Waited = 2
    /\ CeilingFailure
    /\ Len(requests) = 2

\* C28: the fetch of /v1/sql starts at elapsed 0 whatever the primary fetch
\* waited, and only its own retries count against max_wait_time: while
\* they fit the ceiling the ceiling failure is not enabled, and a ceiling
\* failure of the second fetch comes after retries of /v1/sql alone that
\* exceed it.
C28_CeilingPerFetch ==
    (Fetching /\ args.include_generated_sql /\ api_url[1] = SqlUrl) =>
        LET waited_sql == Waited * Cardinality(Retries(SqlUrl))
        IN  /\ CallsTo(SqlUrl) = {} => elapsed_wait_time = 0
            /\ elapsed_wait_time = waited_sql
            /\ (pc = "sql" /\ args.max_wait_time # None
                  /\ waited_sql <= args.max_wait_time[1]) =>
                  ~ENABLED _get_data_from_url_ceiling
            /\ (CeilingFailure /\ args.max_wait_time # None) =>
                  waited_sql > args.max_wait_time[1]

\* max_wait_time 3, interval 2: one retry in each fetch, 4 seconds waited
\* in all, and the task returns its document.
C28_Witness ==
    /\ Fetching /\ args.include_generated_sql
    /\ args.max_wait_time = Some(3) /\ Waited = 2
    /\ sleeps = <<2, 2>>
    /\ Cardinality(Retries(LoadUrl)) = 1 /\ Cardinality(Retries(SqlUrl)) = 1
    /\ pc = "done" /\ result # None

\* C29: with max_wait_time = 0 the ceiling failure never happens and is
\* never enabled; while a fetch runs the next step is another attempt,
\* whatever the elapsed time.
C29_ZeroCeilingIsNoCeiling ==
    (Fetching /\ args.max_wait_time = Some(0)) =>
        /\ ~CeilingFailure
        /\ ~ENABLED _get_data_from_url_ceiling
        /\ (pc \in {"load", "sql"} /\ Len(requests) < MaxCalls) =>
              ENABLED _get_data_from_url

\* max_wait_time 0: four "Continue wait" answers, 40 seconds elapsed, and
\* the fetch goes on.
C29_Witness ==
    /\ Fetching /\ args.max_wait_time = Some(0)
    /\ pc = "load"
    /\ Len(requests) = 4
    /\ \A i \in 1..4 : SaysContinueWait(responses[i])
    /\ elapsed_wait_time = 40
    /\ ENABLED _get_data_from_url

(***************************************************************************)
(* Properties of the endpoint URLs.                                        *)
(***************************************************************************)
\* The base URL C25 asks for.
ExpectedBase ==
    IF ~Missing(args.subdomain)
    THEN <<"https://">> \o args.subdomain[1] \o <<".cubecloud.dev", "/cubejs-api">>
    ELSE args.url[1]

\* C25: the client's base URL is https://<subdomain>.cubecloud.dev/cubejs-api
\* when a non-empty subdomain is given, with or without a url, and the url
\* as given otherwise; its three endpoint URLs are the base followed by
\* /v1/load, /v1/sql and /v1/pre-aggregations/jobs, and every request of the
\* invocation goes to the one that its call names.
C25_EndpointUrls ==
    cubejs_client # None =>
        /\ cubejs_client[1].cube_base_url = Some(ExpectedBase)
        /\ cubejs_client[1].query_api_url = ExpectedBase \o <<"/v1/load">>
        /\ cubejs_client[1].generated_sql_api_url = ExpectedBase \o <<"/v1/sql">>
        /\ cubejs_client[1].pre_aggregations_jobs_api_url =
               ExpectedBase \o <<"/v1/pre-aggregations/jobs">>
        /\ \A i \in 1..Len(requests) :
              requests[i].url =
                  IF requests[i].method = "POST"
                  THEN ExpectedBase \o <<"/v1/pre-aggregations/jobs">>
                  ELSE IF i \in CallsTo(SqlUrl) THEN ExpectedBase \o <<"/v1/sql">>
                  ELSE ExpectedBase \o <<"/v1/load">>

\* Subdomain and url both given: the request goes to the subdomain's host.
C25_Witness ==
    /\ cubejs_client # None
    /\ args.subdomain = Some(<<"acme">>)
    /\ args.url = Some(<<"http://h/cubejs-system">>)
    /\ Len(requests) = 1
    /\ requests[1].url =
           <<"https://", "acme", ".cubecloud.dev", "/cubejs-api", "/v1/load">>

(***************************************************************************)
(* Further properties of the job batch.                                    *)
(***************************************************************************)
\* The latest round was answered with a status document that has no
\* failure, a job with a missing partition, and "done" for every other job,
\* of which there is one.
SomeMissingOthersDone ==
    /\ statuses # None
    /\ Is200(post_response[1]) /\ post_response[1].body = Payload
    /\ \E i \in 1..Len(Payload) : StatusOf(i) = MISSING_PARTITION
    /\ \E i \in 1..Len(Payload) : StatusOf(i) = DONE
    /\ \A i \in 1..Len(Payload) : StatusOf(i) \in {MISSING_PARTITION, DONE}

\* C26: after a status document in which some but not all jobs report
\* missing_partition and the others report done, the batch has neither a
\* result nor an error: it is polling, and its next step is another round.
C26_PartlyMissingStaysPolling ==
    (Waiting /\ SomeMissingOthersDone) =>
        /\ pc = "poll"
        /\ result = None
        /\ error = NoError
        /\ served[Len(served)] = "pending"
        /\ Len(requests) < MaxCalls => ENABLED build_poll

\* t1 misses its partition, t2 is done, and a second round follows.
C26_Witness ==
    /\ Waiting /\ SomeMissingOthersDone
    /\ Payload = <<Job("t1", MISSING_PARTITION), Job("t2", DONE)>>
    /\ Len(served) = 2
    /\ pc = "poll"

\* C30: with waiting, an empty token list from the submit ends the task
\* with True after that one POST: no sleep, no status fetch; with a
\* non-empty list a result True comes after at least one sleep and one
\* status fetch, the last of which answered that all its jobs are done.
C30_EmptyTokenListReturnsTrue ==
    (Waiting /\ tokens # None) =>
        /\ tokens[1] = <<>> =>
              /\ pc = "done"
              /\ result = Some(TRUE)
              /\ Len(requests) = 1
              /\ requests[1].method = "POST"
              /\ sleeps = <<>>
              /\ StatusFetches = {}
              /\ statuses = None
        /\ (tokens[1] # <<>> /\ result = Some(TRUE)) =>
              /\ Len(sleeps) >= 1
              /\ StatusFetches # {}
              /\ Is200(post_response[1])
              /\ post_response[1].body # <<>>
              /\ \A i \in 1..Len(post_response[1].body) :
                    post_response[1].body[i][2].status = DONE

\* The submit answered with no token.
C30_Witness ==
    /\ Waiting
    /\ tokens = Some(<<>>)
    /\ result = Some(TRUE)
    /\ Len(requests) = 1

\* The status documents that end a batch: all jobs done, a failure, all
\* jobs (of which there may be none) missing their partition, or an answer
\* that is not a 200.
EndsBatch(kind) ==
    kind \in {"all_done", "failure", "all_missing", "empty", "http_error"}

\* C27: the rounds have no ceiling.  A batch whose requests were all
\* answered is polling after any number of rounds that reported a job not
\* done (no failure, not all missing), and it has ended only when its last
\* round brought a document that ends a batch.
C27_EndsOnlyOnTerminalRound ==
    (Waiting /\ tokens # None /\ tokens[1] # <<>>
        /\ post_response[1].transport = "ok") =>
        /\ AllPending => pc = "poll"
        /\ pc \in {"done", "failed"} =>
              /\ served # <<>>
              /\ EndsBatch(served[Len(served)])
        /\ \A i \in 1..(Len(served) - 1) : ~EndsBatch(served[i])

(***************************************************************************)
(* Properties of concurrent calls.                                         *)
(***************************************************************************)
\* What a call that runs alone against the answers got comes to: from the
\* k-th loop test on, at the elapsed time given.
RECURSIVE Alone(_, _, _)
Alone(got, k, elapsed) ==
    LET max == args.max_wait_time
        interval == IF args.wait_time_between_api_calls > 0
                    THEN args.wait_time_between_api_calls ELSE 10
    IN  IF max # None /\ max[1] # 0 /\ elapsed > max[1]
        THEN [pc |-> "failed", requests |-> k - 1, elapsed |-> elapsed, result |-> None]
        ELSE IF k > Len(got)
        THEN [pc |-> "loop", requests |-> k - 1, elapsed |-> elapsed, result |-> None]
        ELSE IF SaysContinueWait(got[k]) THEN Alone(got, k + 1, elapsed + interval)
        ELSE IF Is200(got[k])
        THEN [pc |-> "done", requests |-> k, elapsed |-> elapsed,
              result |-> Some(got[k].body)]
        ELSE [pc |-> "failed", requests |-> k, elapsed |-> elapsed, result |-> None]

\* A call is past its loop test k times when it has got k - 1 answers and
\* is in the loop; the ceiling failure is a step of its own.
SameAsAlone(i) ==
    LET c == invocations[i]
        alone == Alone(c.responses, 1, 0)
    IN  /\ alone.requests = Len(c.responses)
        /\ alone.elapsed = c.elapsed_wait_time
        /\ alone.result = c.result
        /\ c.pc \in {"done", "failed"} => alone.pc = c.pc
        /\ c.pc = "loop" =>
              \/ alone.pc = "loop"
              \/ (alone.pc = "failed" /\ ENABLED call_ceiling(i))

\* C24: each of two concurrent calls reads the security context as it was
\* supplied (no step of the other call has changed what it reads), sends
\* the token of the supplied claims in its own Session, keeps its own
\* elapsed time, and comes to the outcome and the number of requests of a
\* call that runs alone against the same answers.
C24_ConcurrentCallsIndependent ==
    pc = "concurrent" =>
        \A i \in Callers :
            LET c == invocations[i]
            IN  /\ c.seen # None => c.seen = args.auth_header[1].security_context
                /\ c.session # None =>
                      c.session[1].Authorization =
                          [alg |-> "HS256", payload |-> SignedClaims,
                           key |-> SuppliedSecret]
                /\ c.pc \in {"loop", "done", "failed"} => SameAsAlone(i)

(***************************************************************************)
(* Repeated evaluations of AuthHeader.api_token.                           *)
(***************************************************************************)
\* The payload of the token of the k-th evaluation of api_token: each
\* Session a client call opens evaluates it once.
PayloadOf(k) == sent_headers[k].Authorization.payload

\* C31: every evaluation of api_token on the AuthHeader in use, by any
\* client call that shares it, signs the payload that the first evaluation
\* signed, and so would the next evaluation on the block as it is now.
C31_ApiTokenIdempotent ==
    Len(sent_headers) > 0 =>
        /\ \A k \in 1..Len(sent_headers) : PayloadOf(k) = PayloadOf(1)
        /\ get_secret_value(api_token(auth_header[1])).payload = PayloadOf(1)

\* Three client calls on a block whose claims had no expiry: the first
\* evaluation wrote expiresIn, the later ones found it.
C31_Witness ==
    /\ Len(sent_headers) >= 3
    /\ SuppliedClaims # None
    /\ ~HasExpiry(SuppliedClaims[1])
    /\ "expiresIn" \in DOMAIN PayloadOf(3)

====
